---- MODULE Spec2Model ----
(***************************************************************************)
(* Verification outcome classification and error-trace reconstruction of   *)
(* share/smack/top.py.                                                      *)
(*                                                                         *)
(* Text is a sequence of lexemes.  Every lexeme is a string of one or more *)
(* characters; the regular expressions of the source are matched over the  *)
(* lexemes exactly as Python's re matches them over the characters the     *)
(* lexemes stand for.                                                       *)
(***************************************************************************)
EXTENDS Integers, Sequences, FiniteSets, TLC

VARIABLES
  verifier_output,  \* the text captured from the back end
  nemit,            \* the number of pieces the text was collected in
  result,           \* the value of verification_result, "none" before
  bpl,              \* the text of the generated artifact a.bpl
  step,             \* the value of the last call of error_step
  trace,            \* the value of error_trace
  report,           \* the JSON value smackdOutput serialises
  tx,               \* the run of the output filter and what transform_out gave
  pc

vars == <<verifier_output, nemit, result, bpl, step, trace, report, tx, pc>>

\* ------------------------------------------------------------------ bounds
MaxEmit == 3
ArtifactLen == 12
MaxAnnot == 2
MaxTraceLines == 2
MaxReportLines == 3
MaxFilterLines == 2

\* ----------------------------------------------------------------- lexemes
NL == "\n"
D0 == "0"
D1 == "1"
VER == " verified, "
ERR == " error"
TO == " time out"
Z3OUT == "Z3 ran out of resources"
TIMEDOUT == "timed out"
ERRORS_TIMEOUT == "ERRORS_TIMEOUT"
NO_ERRORS_NO_TIMEOUT == "NO_ERRORS_NO_TIMEOUT"
ERRORS_NO_TIMEOUT == "ERRORS_NO_TIMEOUT"
NOBUGS == "no bugs"
CANFAIL == "can fail"
A_DEREF == "ASSERTION FAILS assert {:valid_deref}"
A_FREE == "ASSERTION FAILS assert {:valid_free}"
A_MEMTRACK == "ASSERTION FAILS assert {:valid_memtrack}"
A_OVERFLOW == "ASSERTION FAILS assert {:overflow}"
CALL == "(CALL "
FREE_ == "free_"
RP == ")"
WORD == "x"
SP == " "
TAB == "\t"
LP == "("
COMMA == ","
COLSP == ": "
F_A == "a"
F_B == "b"
F_MAIN == "main"
EXT_BPL == ".bpl"
EXT_C == ".c"
BB == "$bb"
ERROR_ == "error "
CAP_ERROR_ == "Error "
CODEW == "ASSERT"
SL_OPEN == "{:sourceloc \""
SL_MID == "\", "
COMMASP == ", "
SL_CLOSE == "}"
EXEC_TRACE == "Execution trace:"
PROGRAM_HAS == "Program has "
TRACE_THREAD == "Trace: Thread="
EQ == "="
BV == "bv"

Digit == {"0", "1", "2", "3", "4", "5", "6", "7", "8", "9"}
NonZeroDigit == Digit \ {"0"}

\* int() of a string of decimal digits
DigitChars == <<"0", "1", "2", "3", "4", "5", "6", "7", "8", "9">>
DigitVal(d) == (CHOOSE k \in 1..10 : DigitChars[k] = d) - 1
RECURSIVE int(_)
int(ds) ==
  IF ds = <<>> THEN 0
  ELSE 10 * int(SubSeq(ds, 1, Len(ds) - 1)) + DigitVal(ds[Len(ds)])

\* s[i], or the empty lexeme past the end of s
At(s, i) == IF i \in 1..Len(s) THEN s[i] ELSE ""

\* the lexeme tok contains the literal lit (NO_ERRORS_NO_TIMEOUT ends with
\* ERRORS_NO_TIMEOUT; no other lexeme contains another literal)
Holds(tok, lit) ==
  \/ tok = lit
  \/ tok = NO_ERRORS_NO_TIMEOUT /\ lit = ERRORS_NO_TIMEOUT

\* re.search of a literal
Search(lit, s) == \E i \in 1..Len(s) : Holds(s[i], lit)

\* \d* followed by the lexeme t, matched from position i; the set of
\* positions of t
DigitsThen(s, i, t) ==
  {j \in i..Len(s) : s[j] = t /\ \A k \in i..(j - 1) : s[k] \in Digit}

\* ------------------------------------------------- verification_result
\* r'[1-9]\d* time out|Z3 ran out of resources|timed out|ERRORS_TIMEOUT'
TimeoutRe(s) ==
  \/ \E i \in 1..Len(s) : s[i] \in NonZeroDigit /\ DigitsThen(s, i + 1, TO) # {}
  \/ Search(Z3OUT, s)
  \/ Search(TIMEDOUT, s)
  \/ Search(ERRORS_TIMEOUT, s)

\* r'[1-9]\d* verified, 0 errors?|no bugs|NO_ERRORS_NO_TIMEOUT'
VerifiedRe(s) ==
  \/ \E i \in 1..Len(s) :
        /\ s[i] \in NonZeroDigit
        /\ \E j \in DigitsThen(s, i + 1, VER) : At(s, j + 1) = "0" /\ At(s, j + 2) = ERR
  \/ Search(NOBUGS, s)
  \/ Search(NO_ERRORS_NO_TIMEOUT, s)

\* r'\d* verified, [1-9]\d* errors?|can fail|ERRORS_NO_TIMEOUT'
ErrorRe(s) ==
  \/ \E j \in 1..Len(s) :
        /\ s[j] = VER
        /\ At(s, j + 1) \in NonZeroDigit
        /\ DigitsThen(s, j + 2, ERR) # {}
  \/ Search(CANFAIL, s)
  \/ Search(ERRORS_NO_TIMEOUT, s)

\* the position before the line of s that holds position i, and the last
\* position of that line, line break excluded
LineBefore(s, i) ==
  LET brk == {k \in 1..(i - 1) : s[k] = NL}
  IN IF brk = {} THEN 0 ELSE CHOOSE k \in brk : \A h \in brk : h <= k
LineLast(s, i) ==
  LET brk == {k \in i..Len(s) : s[k] = NL}
  IN IF brk = {} THEN Len(s) ELSE (CHOOSE k \in brk : \A h \in brk : k <= h) - 1

\* the last ')' of the line of s that holds position i; 0 without one
LastRP(s, i) ==
  LET rps == {k \in (LineBefore(s, i) + 1)..LineLast(s, i) : s[k] = RP}
  IN IF rps = {} THEN 0 ELSE CHOOSE k \in rps : \A h \in rps : h <= k

\* re.findall(r'\(CALL .+\)', s): '.' matches no line break and '.+' is
\* greedy, so a line gives at most one occurrence, from its first '(CALL '
\* to its last ')' provided at least one character lies between them.  The
\* occurrences as pairs <<first, last>> of positions.
listCall(s) ==
  {<<i, LastRP(s, i)>> :
     i \in {i \in 1..Len(s) :
              /\ s[i] = CALL
              /\ \A k \in (LineBefore(s, i) + 1)..(i - 1) : s[k] # CALL
              /\ LastRP(s, i) >= i + 2}}

\* listCall[len(listCall)-1]
LastCall(calls) == CHOOSE m \in calls : \A n \in calls : n[1] <= m[1]

\* len(listCall) > 0 and re.search(r'free_', listCall[len(listCall)-1])
LastCallFrees(s) ==
  LET calls == listCall(s) IN
  /\ calls # {}
  /\ \E k \in LastCall(calls)[1]..LastCall(calls)[2] : s[k] = FREE_

\* the failure kinds of verification_result with valid_free tested first
failure_kind_FreeFirst(s) ==
  IF Search(A_FREE, s) THEN "invalid-free"
  ELSE IF Search(A_DEREF, s) THEN "invalid-deref"
  ELSE IF Search(A_MEMTRACK, s) THEN "invalid-memtrack"
  ELSE IF Search(A_OVERFLOW, s) THEN "overflow"
  ELSE IF LastCallFrees(s) THEN "invalid-free"
  ELSE "error"

\* the failure kinds of verification_result with overflow tested first
failure_kind_OverflowFirst(s) ==
  IF Search(A_OVERFLOW, s) THEN "overflow"
  ELSE IF Search(A_DEREF, s) THEN "invalid-deref"
  ELSE IF Search(A_FREE, s) THEN "invalid-free"
  ELSE IF Search(A_MEMTRACK, s) THEN "invalid-memtrack"
  ELSE IF LastCallFrees(s) THEN "invalid-free"
  ELSE "error"

\* the third branch of verification_result
failure_kind(s) ==
  IF Search(A_DEREF, s) THEN "invalid-deref"
  ELSE IF Search(A_FREE, s) THEN "invalid-free"
  ELSE IF Search(A_MEMTRACK, s) THEN "invalid-memtrack"
  ELSE IF Search(A_OVERFLOW, s) THEN "overflow"
  ELSE IF LastCallFrees(s) THEN "invalid-free"
  ELSE "error"

\* verification_result without its last branch: text that matches no rule
\* is reported as a generic error
verification_result_NoFallback(s) ==
  IF TimeoutRe(s) THEN "timeout"
  ELSE IF VerifiedRe(s) THEN "verified"
  ELSE failure_kind(s)

\* verification_result with the success rule tested before the timeout rule
verification_result_VerifiedFirst(s) ==
  IF VerifiedRe(s) THEN "verified"
  ELSE IF TimeoutRe(s) THEN "timeout"
  ELSE IF ErrorRe(s) THEN failure_kind(s)
  ELSE "unknown"

\* verification_result with the failure rule tested before the success rule
verification_result_ErrorFirst(s) ==
  IF TimeoutRe(s) THEN "timeout"
  ELSE IF ErrorRe(s) THEN failure_kind(s)
  ELSE IF VerifiedRe(s) THEN "verified"
  ELSE "unknown"

verification_result(s) ==
  IF TimeoutRe(s) THEN "timeout"
  ELSE IF VerifiedRe(s) THEN "verified"
  ELSE IF ErrorRe(s) THEN failure_kind(s)
  ELSE "unknown"

\* ------------------------------------------------------ classifier runs
\* what a back end prints in one write
Phrases ==
  { <<D1>>, <<D0, TO>>, <<D0, VER, D0, ERR>>, <<D0, VER, D1, ERR>>,
    <<Z3OUT>>, <<TIMEDOUT>>, <<ERRORS_TIMEOUT>>,
    <<NOBUGS>>, <<NO_ERRORS_NO_TIMEOUT>>,
    <<CANFAIL>>, <<ERRORS_NO_TIMEOUT>>,
    <<A_DEREF>>, <<A_FREE>>, <<A_MEMTRACK>>, <<A_OVERFLOW>>,
    <<CALL, FREE_, RP>>, <<CALL, WORD, RP>>, <<CALL, FREE_, RP, NL>>, <<NL>> }

\* Python's None, a string, and a raised IOError as values of one shape
None == [tag |-> "None", s |-> <<>>]
Str(s) == [tag |-> "str", s |-> s]
IOError == [tag |-> "IOError", s |-> <<>>]

Init ==
  /\ verifier_output = <<>>
  /\ nemit = 0
  /\ result = "none"
  /\ bpl = <<>>
  /\ step = None
  /\ trace = None
  /\ report = None
  /\ tx = None
  /\ pc = "run"

\* try_command collects one more piece of the back end's output
Emit(p) ==
  /\ pc = "run"
  /\ nemit < MaxEmit
  /\ verifier_output' = verifier_output \o p
  /\ nemit' = nemit + 1
  /\ UNCHANGED <<result, bpl, step, trace, pc, report, tx>>

\* verify_bpl: result = verification_result(verifier_output)
Classify ==
  /\ pc = "run"
  /\ result' = verification_result(verifier_output)
  /\ pc' = "classified"
  /\ UNCHANGED <<verifier_output, nemit, bpl, step, trace, report, tx>>

Next ==
  \/ \E p \in Phrases : Emit(p)
  \/ Classify

Spec == Init /\ [][Next]_vars

\* ------------------------------------------------------------ error_step
\* the lexemes made of characters of FILENAME = '[\w#$~%.\/-]*'
FilenameClass ==
  Digit \cup {F_A, F_B, F_MAIN, EXT_BPL, EXT_C, BB, WORD, FREE_, CODEW,
              ERRORS_TIMEOUT, NO_ERRORS_NO_TIMEOUT, ERRORS_NO_TIMEOUT}
\* \s
SpaceClass == {SP, TAB, NL}
\* [A-Z0-9]
CodeClass == Digit \cup {CODEW}

\* the last position of the longest run of lexemes of class C that starts
\* at position i of s; i - 1 when the run is empty (a greedy C*)
RunEnd(s, i, C) ==
  LET stop == {k \in i..Len(s) : s[k] \notin C}
  IN IF i > Len(s) THEN i - 1
     ELSE IF stop = {} THEN Len(s)
     ELSE (CHOOSE k \in stop : \A h \in stop : k <= h) - 1

\* the longest run of lexemes other than the line break (a greedy .*)
DotEnd(s, i) ==
  LET stop == {k \in i..Len(s) : s[k] = NL}
  IN IF i > Len(s) THEN i - 1
     ELSE IF stop = {} THEN Len(s)
     ELSE (CHOOSE k \in stop : \A h \in stop : k <= h) - 1

\* str.splitlines(True)
RECURSIVE splitlines(_)
splitlines(s) ==
  IF s = <<>> THEN <<>>
  ELSE LET e == DotEnd(s, 1)
           n == IF e < Len(s) THEN e + 1 ELSE e
       IN <<SubSeq(s, 1, n)>> \o splitlines(SubSeq(s, n + 1, Len(s)))

\* a Python slice xs[a:b] of a list, 0 <= a <= b
Slice(xs, a, b) ==
  SubSeq(xs, a + 1, IF b < Len(xs) THEN b ELSE Len(xs))

\* re.match("(\s*)(%s)\((\d+),\d+\): (.*)" % FILENAME, step): the groups,
\* or ok = FALSE when the line does not match
StepMatch(line) ==
  LET e1 == RunEnd(line, 1, SpaceClass)
      e2 == RunEnd(line, e1 + 1, FilenameClass)
      e3 == RunEnd(line, e2 + 2, Digit)
      e4 == RunEnd(line, e3 + 2, Digit)
      e5 == DotEnd(line, e4 + 3)
      ok == /\ At(line, e2 + 1) = LP
            /\ e3 >= e2 + 2
            /\ At(line, e3 + 1) = COMMA
            /\ e4 >= e3 + 2
            /\ At(line, e4 + 1) = RP
            /\ At(line, e4 + 2) = COLSP
  IN IF ok
     THEN [ok |-> TRUE,
           g0 |-> SubSeq(line, 1, e5),
           g1 |-> SubSeq(line, 1, e1),
           g2 |-> SubSeq(line, e1 + 1, e2),
           g3 |-> SubSeq(line, e2 + 2, e3),
           g4 |-> SubSeq(line, e4 + 3, e5)]
     ELSE [ok |-> FALSE, g0 |-> <<>>, g1 |-> <<>>, g2 |-> <<>>, g3 |-> <<>>,
           g4 |-> <<>>]

\* re.match('.*[.]bpl$', step.group(2))
EndsInBpl(file) == file # <<>> /\ file[Len(file)] = EXT_BPL

\* re.match('.*\$bb\d+.*', message)
BlockLabelRe(message) ==
  \E i \in 1..Len(message) : message[i] = BB /\ At(message, i + 1) \in Digit

\* the message error_step keeps although it names a basic block
message_of_Kept(g4) == g4

\* lines 745-747
message_of(g4) == IF BlockLabelRe(g4) THEN <<>> ELSE g4

\* re.match(".*{:sourceloc \"(%s)\", (\d+), (\d+)}" % FILENAME, line) with
\* the annotation starting at position i of the line
SourcelocAt(line, i) ==
  LET f == RunEnd(line, i + 1, FilenameClass)
      d1 == RunEnd(line, f + 2, Digit)
      d2 == RunEnd(line, d1 + 2, Digit)
      ok == /\ At(line, i) = SL_OPEN
            /\ At(line, f + 1) = SL_MID
            /\ d1 >= f + 2
            /\ At(line, d1 + 1) = COMMASP
            /\ d2 >= d1 + 2
            /\ At(line, d2 + 1) = SL_CLOSE
            /\ \A k \in 1..i : line[k] # NL
  IN IF ok
     THEN [ok |-> TRUE, g1 |-> SubSeq(line, i + 1, f),
           g2 |-> SubSeq(line, f + 2, d1), g3 |-> SubSeq(line, d1 + 2, d2)]
     ELSE [ok |-> FALSE, g1 |-> <<>>, g2 |-> <<>>, g3 |-> <<>>]

\* the leading '.*' is greedy: the last annotation of the line matches
SourcelocMatch(line) ==
  LET hits == {i \in 1..Len(line) : SourcelocAt(line, i).ok}
  IN IF hits = {} THEN SourcelocAt(line, 0)
     ELSE SourcelocAt(line, CHOOSE i \in hits : \A k \in hits : k <= i)

\* the only file open() finds is the artifact a.bpl
Exists(path) == path = <<F_A, EXT_BPL>>

WINDOW == 10

\* f.read().splitlines(True)[line_no:line_no+10]
Window(text, line_no) == Slice(splitlines(text), line_no, line_no + WINDOW)

\* "%s%s(%s,%s): %s"
Format(indent, file, line, col, message) ==
  indent \o file \o <<LP>> \o line \o <<COMMA>> \o col \o <<RP, COLSP>> \o message

\* error_step returning the matched line when the window holds no annotation
error_step_Fallback(line, text) ==
  LET m == StepMatch(line) IN
  IF m.ok THEN
    IF EndsInBpl(m.g2) THEN
      IF ~Exists(m.g2) THEN IOError
      ELSE
        LET window == Window(text, int(m.g3))
            hits == {k \in 1..Len(window) : SourcelocMatch(window[k]).ok}
        IN IF hits = {} THEN Str(m.g0)
           ELSE LET src == SourcelocMatch(window[CHOOSE k \in hits : \A h \in hits : k <= h])
                IN Str(Format(m.g1, src.g1, src.g2, src.g3, message_of(m.g4)))
    ELSE Str(m.g0)
  ELSE None

\* error_step returning the matched line without its indentation
error_step_NoIndent(line, text) ==
  LET m == StepMatch(line) IN
  IF m.ok THEN
    IF EndsInBpl(m.g2) THEN
      IF ~Exists(m.g2) THEN IOError
      ELSE
        LET window == Window(text, int(m.g3))
            hits == {k \in 1..Len(window) : SourcelocMatch(window[k]).ok}
        IN IF hits = {} THEN None
           ELSE LET src == SourcelocMatch(window[CHOOSE k \in hits : \A h \in hits : k <= h])
                IN Str(Format(m.g1, src.g1, src.g2, src.g3, message_of(m.g4)))
    ELSE Str(SubSeq(m.g0, Len(m.g1) + 1, Len(m.g0)))
  ELSE None

\* error_step(step), text being the content of a.bpl
error_step(line, text) ==
  LET m == StepMatch(line) IN
  IF m.ok THEN
    IF EndsInBpl(m.g2) THEN
      IF ~Exists(m.g2) THEN IOError
      ELSE
        LET window == Window(text, int(m.g3))
            hits == {k \in 1..Len(window) : SourcelocMatch(window[k]).ok}
        IN IF hits = {} THEN None
           ELSE LET src == SourcelocMatch(window[CHOOSE k \in hits : \A h \in hits : k <= h])
                IN Str(Format(m.g1, src.g1, src.g2, src.g3, message_of(m.g4)))
    ELSE Str(m.g0)
  ELSE None

\* ------------------------------------------------- artifacts and lines
\* the decimal numeral of n
RECURSIVE Numeral(_)
Numeral(n) ==
  IF n < 10 THEN <<DigitChars[n + 1]>>
  ELSE Numeral(n \div 10) \o <<DigitChars[(n % 10) + 1]>>

RECURSIVE Flatten(_)
Flatten(ls) == IF ls = <<>> THEN <<>> ELSE Head(ls) \o Flatten(Tail(ls))

\* the lines the annotation writer produces: a statement without an
\* annotation, a statement of main.c line k column 2, and an annotation
\* that lacks its column
PlainLine == <<WORD, NL>>
AnnotLine(k) ==
  <<WORD, SL_OPEN, F_MAIN, EXT_C, SL_MID>> \o Numeral(k) \o <<COMMASP, "2", SL_CLOSE, WORD, NL>>
MalformedLine(k) ==
  <<WORD, SL_OPEN, F_MAIN, EXT_C, SL_MID>> \o Numeral(k) \o <<SL_CLOSE, WORD, NL>>

\* a.bpl with well-formed annotations on the lines G and malformed ones on M
Artifact(G, M) ==
  Flatten([k \in 1..ArtifactLen |->
             IF k \in G THEN AnnotLine(k)
             ELSE IF k \in M THEN MalformedLine(k) ELSE PlainLine])

\* the lines of text that carry a well-formed and a malformed annotation
GoodLines(text) ==
  LET ls == splitlines(text) IN {k \in 1..Len(ls) : ls[k] = AnnotLine(k)}
BadLines(text) ==
  LET ls == splitlines(text) IN {k \in 1..Len(ls) : ls[k] = MalformedLine(k)}

\* a located diagnostic as a back end prints it
DiagText(indent, file, n, c, message) ==
  indent \o file \o <<LP>> \o Numeral(n) \o <<COMMA>> \o Numeral(c) \o <<RP, COLSP>> \o message
DiagLine(indent, file, n, c, message) == DiagText(indent, file, n, c, message) \o <<NL>>

A_BPL == <<F_A, EXT_BPL>>
B_BPL == <<F_B, EXT_BPL>>
MAIN_C == <<F_MAIN, EXT_C>>
Indents == {<<>>, <<SP>>, <<TAB>>}
Messages == {<<WORD>>, <<BB, "0", WORD>>}
LineNos == 0..(ArtifactLen + 1)
OtherFiles == {MAIN_C, <<>>, <<F_A, EXT_BPL, WORD>>}

\* a plain error line and an indented trace line that names a basic block
BplShapes == {[ind |-> <<>>, msg |-> <<WORD>>], [ind |-> <<SP>>, msg |-> <<BB, "0", WORD>>]}
BplLines ==
  {DiagLine(sh.ind, A_BPL, n, 3, sh.msg) : sh \in BplShapes, n \in LineNos}
OtherLines ==
  {DiagLine(ind, f, 3, 4, msg) : ind \in Indents, f \in OtherFiles, msg \in Messages}
Unshaped ==
  { <<WORD, NL>>, <<EXEC_TRACE, NL>>,
    <<F_A, EXT_BPL, LP, "1", RP, COLSP, WORD, NL>>,
    <<F_A, EXT_BPL, COLSP, WORD, NL>>,
    <<F_MAIN, EXT_C, LP, "1", COMMA, "2", RP, WORD, NL>>,
    <<F_MAIN, EXT_C, LP, "1", COMMASP, "2", RP, COLSP, WORD, NL>> }
StepLines ==
  BplLines \cup OtherLines \cup Unshaped \cup {DiagLine(<<>>, B_BPL, 1, 1, <<WORD>>)}

InitStep ==
  /\ verifier_output = <<>>
  /\ nemit = 0
  /\ result = "none"
  /\ bpl = Artifact({}, {})
  /\ step = None
  /\ trace = None
  /\ report = None
  /\ tx = None
  /\ pc = "run"

\* the annotation writer annotates the statement on line k of a.bpl
Annotate(k, good) ==
  /\ pc = "run"
  /\ LET G == GoodLines(bpl)
         M == BadLines(bpl)
     IN /\ k \notin G \cup M
        /\ Cardinality(G \cup M) < MaxAnnot
        /\ bpl' = IF good THEN Artifact(G \cup {k}, M) ELSE Artifact(G, M \cup {k})
  /\ UNCHANGED <<verifier_output, nemit, result, step, trace, pc, report, tx>>

\* error_trace hands one line of the back end's output to error_step
ErrorStep(line) ==
  /\ pc = "run"
  /\ verifier_output' = line
  /\ step' = error_step(line, bpl)
  /\ pc' = "stepped"
  /\ UNCHANGED <<nemit, result, bpl, trace, report, tx>>

NextStep ==
  \/ \E k \in 1..ArtifactLen, good \in BOOLEAN : Annotate(k, good)
  \/ \E line \in StepLines : ErrorStep(line)

SpecStep == InitStep /\ [][NextStep]_vars

\* ----------------------------------------------------------- error_trace
\* re.match('(.*): [Ee]rror [A-Z0-9]+: (.*)', step) with group 1 ending
\* before position i
HeaderAt(st, i) ==
  LET e == RunEnd(st, i + 2, CodeClass)
  IN /\ At(st, i) = COLSP
     /\ At(st, i + 1) \in {ERROR_, CAP_ERROR_}
     /\ e >= i + 2
     /\ At(st, e + 1) = COLSP
     /\ \A k \in 1..i : st[k] # NL

\* the text error_trace appends for a step that is always indented
piece_AlwaysIndent(st) ==
  LET hits == {i \in 1..Len(st) : HeaderAt(st, i)} IN
  IF hits # {}
  THEN LET i == CHOOSE i \in hits : \A k \in hits : k <= i
           e == RunEnd(st, i + 2, CodeClass)
       IN SubSeq(st, 1, i - 1) \o <<COLSP>> \o SubSeq(st, e + 2, DotEnd(st, e + 2))
            \o <<NL, EXEC_TRACE, NL>>
  ELSE <<SP, SP, SP, SP>> \o st \o <<NL>>

\* lines 763-767: the text error_trace appends for a step; the first '(.*)'
\* is greedy, so the last error pattern of the step is the one matched
piece(st) ==
  LET hits == {i \in 1..Len(st) : HeaderAt(st, i)} IN
  IF hits # {}
  THEN LET i == CHOOSE i \in hits : \A k \in hits : k <= i
           e == RunEnd(st, i + 2, CodeClass)
       IN SubSeq(st, 1, i - 1) \o <<COLSP>> \o SubSeq(st, e + 2, DotEnd(st, e + 2))
            \o <<NL, EXEC_TRACE, NL>>
  ELSE (IF st[1] = SP THEN <<>> ELSE <<SP, SP, SP, SP>>) \o st \o <<NL>>

\* the loop of error_trace over the lines that are left, acc being trace
RECURSIVE trace_loop(_, _, _)
trace_loop(lines, text, acc) ==
  IF lines = <<>> THEN Str(acc)
  ELSE LET st == error_step(Head(lines), text) IN
       IF st.tag = "IOError" THEN IOError
       ELSE IF st.tag = "str" /\ st.s # <<>>
            THEN trace_loop(Tail(lines), text, acc \o piece(st.s))
            ELSE trace_loop(Tail(lines), text, acc)

\* error_trace(verifier_output, args), text being the content of a.bpl
error_trace(output, text) == trace_loop(splitlines(output), text, <<>>)

ERROR_MSG == <<ERROR_, CODEW, "1", COLSP, WORD>>
TraceLines ==
  { DiagLine(<<>>, A_BPL, 2, 3, ERROR_MSG),
    DiagLine(<<SP, SP, SP, SP>>, A_BPL, 5, 1, <<BB, "0">>),
    DiagLine(<<SP>>, MAIN_C, 3, 4, <<WORD>>),
    DiagLine(<<>>, MAIN_C, 3, 4, <<WORD>>),
    DiagText(<<>>, MAIN_C, 3, 4, <<WORD>>),
    DiagLine(<<>>, MAIN_C, 3, 4, <<CAP_ERROR_, "0", COLSP, WORD>>),
    DiagLine(<<TAB>>, MAIN_C, 3, 4, <<ERROR_, WORD, COLSP, WORD>>),
    DiagLine(<<>>, B_BPL, 1, 1, <<WORD>>),
    <<EXEC_TRACE, NL>> }

InitTrace ==
  /\ verifier_output = <<>>
  /\ nemit = 0
  /\ result = "none"
  /\ bpl \in {Artifact({}, {})} \cup {Artifact({k}, {}) : k \in 1..ArtifactLen}
  /\ step = None
  /\ trace = None
  /\ report = None
  /\ tx = None
  /\ pc = "run"

\* try_command collects one more line of the back end's output
EmitLine(line) ==
  /\ pc = "run"
  /\ nemit < MaxTraceLines
  /\ verifier_output' = verifier_output \o line
  /\ nemit' = nemit + 1
  /\ UNCHANGED <<result, bpl, step, trace, pc, report, tx>>

\* verify_bpl: error = error_trace(verifier_output, args)
ErrorTrace ==
  /\ pc = "run"
  /\ trace' = error_trace(verifier_output, bpl)
  /\ pc' = IF trace'.tag = "IOError" THEN "raised" ELSE "traced"
  /\ UNCHANGED <<verifier_output, nemit, result, bpl, step, report, tx>>

NextTrace ==
  \/ \E line \in TraceLines : EmitLine(line)
  \/ ErrorTrace

SpecTrace == InitTrace /\ [][NextTrace]_vars

\* ---------------------------------------------------------- smackdOutput
\* the lexemes made of characters of \w
WordClass ==
  Digit \cup {WORD, F_A, F_B, F_MAIN, FREE_, CODEW, BV,
              ERRORS_TIMEOUT, NO_ERRORS_NO_TIMEOUT, ERRORS_NO_TIMEOUT}
\* \s inside a line
BlankClass == {SP, TAB}

\* the position '$' matches at: the end of the line, before its line break
LineEnd(line) ==
  IF line # <<>> /\ line[Len(line)] = NL THEN Len(line) - 1 ELSE Len(line)

\* the value of a one-element set: The({e(x) : x \in {v}}) is e(v), with v
\* computed once
The(S) == CHOOSE x \in S : TRUE

\* re.match('(' + FILENAME + ')\((\d+),(\d+)\): ', traceLine), the common
\* head of the three expressions of smackdOutput (FILENAME is not empty
\* here); e is the position of ': '
LocatedHead(line) ==
  The({The({The({
    IF /\ e1 >= 1
       /\ At(line, e1 + 1) = LP
       /\ e2 >= e1 + 2
       /\ At(line, e2 + 1) = COMMA
       /\ e3 >= e2 + 2
       /\ At(line, e3 + 1) = RP
       /\ At(line, e3 + 2) = COLSP
    THEN [ok |-> TRUE, g1 |-> SubSeq(line, 1, e1), g2 |-> SubSeq(line, e1 + 2, e2),
          g3 |-> SubSeq(line, e2 + 2, e3), e |-> e3 + 2]
    ELSE [ok |-> FALSE, g1 |-> <<>>, g2 |-> <<>>, g3 |-> <<>>, e |-> 0]
    : e3 \in {RunEnd(line, e2 + 2, Digit)}})
    : e2 \in {RunEnd(line, e1 + 2, Digit)}})
    : e1 \in {RunEnd(line, 1, FilenameClass)}})

\* 'Trace: Thread=(\d+)  ' after the head h; e is the position of the
\* second space
ThreadPart(line, h) ==
  The({
    IF /\ h.ok
       /\ At(line, h.e + 1) = TRACE_THREAD
       /\ t >= h.e + 2
       /\ At(line, t + 1) = SP
       /\ At(line, t + 2) = SP
    THEN [ok |-> TRUE, g4 |-> SubSeq(line, h.e + 2, t), e |-> t + 2]
    ELSE [ok |-> FALSE, g4 |-> <<>>, e |-> 0]
    : t \in {RunEnd(line, h.e + 2, Digit)}})

\* the line up to the two spaces after the thread id
TraceHead(line) ==
  The({[h |-> h, t |-> ThreadPart(line, h)] : h \in {LocatedHead(line)}})

\* traceMatch (line 789): the line ends after the two spaces (group 6 is
\* None, none = TRUE) or with one parenthesis that closes at its end.
traceMatch(line) ==
  The({The({
    [ok |-> bare \/ paren, g1 |-> th.h.g1, g2 |-> th.h.g2, g3 |-> th.h.g3,
     g4 |-> th.t.g4,
     none |-> ~paren,
     g6 |-> IF paren THEN SubSeq(line, th.t.e + 2, last - 1) ELSE <<>>]
    : bare \in {th.t.ok /\ th.t.e = last},
      paren \in {th.t.ok /\ At(line, th.t.e + 1) = LP /\ last >= th.t.e + 2
                          /\ At(line, last) = RP}})
    : th \in {TraceHead(line)}, last \in {LineEnd(line)}})

\* \s*\w+\s*=\s*\w+\s* from position i on: ok, and the position of its end
AssumeBody(line, i) ==
  The({The({The({The({The({The({
    [ok |-> w1 >= a + 1 /\ At(line, b + 1) = EQ /\ w2 >= c + 1, e |-> d]
    : d \in {RunEnd(line, w2 + 1, BlankClass)}})
    : w2 \in {RunEnd(line, c + 1, WordClass)}})
    : c \in {RunEnd(line, b + 2, BlankClass)}})
    : b \in {RunEnd(line, w1 + 1, BlankClass)}})
    : w1 \in {RunEnd(line, a + 1, WordClass)}})
    : a \in {RunEnd(line, i, BlankClass)}})

\* traceAssumeMatch (line 790): the parenthesis holds \s*\w+\s*=\s*\w+\s*
traceAssumeMatch(line) ==
  The({The({
    IF /\ t.ok
       /\ At(line, t.e + 1) = LP
       /\ body.ok
       /\ At(line, body.e + 1) = RP
       /\ body.e + 1 = LineEnd(line)
    THEN [ok |-> TRUE, g6 |-> SubSeq(line, t.e + 2, body.e)]
    ELSE [ok |-> FALSE, g6 |-> <<>>]
    : body \in {AssumeBody(line, t.e + 2)}})
    : t \in {TraceHead(line).t}})

\* errorMatch (line 791)
errorMatch(line) ==
  The({
    IF h.ok /\ At(line, h.e + 1) = ERROR_
    THEN [ok |-> TRUE, g1 |-> h.g1, g2 |-> h.g2, g3 |-> h.g3,
          g4 |-> SubSeq(line, h.e + 1, LineEnd(line))]
    ELSE [ok |-> FALSE, g1 |-> <<>>, g2 |-> <<>>, g3 |-> <<>>, g4 |-> <<>>]
    : h \in {LocatedHead(line)}})

\* '=(\s*\d+)bv\d+' at position i of assm: ok, the end of group 1 and the
\* end of the match
BvAt(assm, i) ==
  The({The({The({
    [ok |-> assm[i] = EQ /\ dg >= sp + 1 /\ At(assm, dg + 1) = BV /\ wd >= dg + 2,
     dg |-> dg, wd |-> wd]
    : wd \in {RunEnd(assm, dg + 2, Digit)}})
    : dg \in {RunEnd(assm, sp + 1, Digit)}})
    : sp \in {RunEnd(assm, i + 1, BlankClass)}})

\* the assumption left as the back end printed it
bv_sub_Keep(assm) == assm

\* re.sub(r'=(\s*\d+)bv\d+', r'=\1', assm); assm holds one '='
bv_sub(assm) ==
  The({
    IF hits = {} THEN assm
    ELSE The({SubSeq(assm, 1, m.dg) \o SubSeq(assm, m.wd + 1, Len(assm))
              : m \in {The(hits)}})
    : hits \in {{m \in {BvAt(assm, i) : i \in 1..Len(assm)} : m.ok}}})

\* lines 782-787: the variables of the loop before its first line
ScanInit ==
  [traces |-> <<>>, filename |-> <<>>, lineno |-> 0, colno |-> 0, threadid |-> 0,
   desc |-> <<>>]

\* lines 793-808: the step of a line traceMatch accepts
trace_of(tm, am) ==
  [threadid |-> int(tm.g4), file |-> tm.g1, line |-> int(tm.g2),
   column |-> int(tm.g3),
   description |-> IF tm.none \/ tm.g6 = <<"None">> THEN <<>> ELSE tm.g6,
   assumption |-> IF am.ok THEN bv_sub(am.g6) ELSE <<>>]

\* one line of the loop with the new step put before the collected ones
scan_line_Prepend(st, line) ==
  The({
    IF tm.ok
    THEN [traces |-> <<trace_of(tm, am)>> \o st.traces,
          filename |-> tm.g1, lineno |-> int(tm.g2), colno |-> int(tm.g3),
          threadid |-> int(tm.g4),
          desc |-> IF tm.none THEN <<"None">> ELSE tm.g6]
    ELSE IF em.ok
    THEN [st EXCEPT !.filename = em.g1, !.lineno = int(em.g2),
                    !.colno = int(em.g3), !.desc = em.g4]
    ELSE st
    : tm \in {traceMatch(line)}, am \in {traceAssumeMatch(line)},
      em \in {errorMatch(line)}})

\* lines 789-814: one line of the loop; desc is str(group 6), 'None' where
\* the line has no parenthesis
scan_line(st, line) ==
  The({
    IF tm.ok
    THEN [traces |-> Append(st.traces, trace_of(tm, am)),
          filename |-> tm.g1, lineno |-> int(tm.g2), colno |-> int(tm.g3),
          threadid |-> int(tm.g4),
          desc |-> IF tm.none THEN <<"None">> ELSE tm.g6]
    ELSE IF em.ok
    THEN [st EXCEPT !.filename = em.g1, !.lineno = int(em.g2),
                    !.colno = int(em.g3), !.desc = em.g4]
    ELSE st
    : tm \in {traceMatch(line)}, am \in {traceAssumeMatch(line)},
      em \in {errorMatch(line)}})

RECURSIVE scan(_, _)
scan(lines, st) ==
  IF lines = <<>> THEN st ELSE scan(Tail(lines), scan_line(st, Head(lines)))

\* re.search('Program has no bugs', ...) tried at the start of the text only
passedMatch_AtStart(s) == At(s, 1) = PROGRAM_HAS /\ At(s, 2) = NOBUGS

\* re.search('Program has no bugs', corralOutput)
passedMatch(s) == \E i \in 1..Len(s) : s[i] = PROGRAM_HAS /\ At(s, i + 1) = NOBUGS

\* smackdOutput(corralOutput): json_data, the field 'passed?' as passed
smackdOutput(corralOutput) ==
  IF passedMatch(corralOutput)
  THEN [verifier |-> "corral", passed |-> TRUE]
  ELSE The({[verifier |-> "corral", passed |-> FALSE,
             failsAt |-> [file |-> st.filename, line |-> st.lineno,
                          column |-> st.colno, description |-> st.desc],
             threadCount |-> 1,
             traces |-> st.traces]
            : st \in {scan(splitlines(corralOutput), ScanInit)}})

\* a line of corral's trace: file(n,c): Trace: Thread=t, two spaces, tail
TraceLine(file, n, c, t, tail) ==
  file \o <<LP>> \o Numeral(n) \o <<COMMA>> \o Numeral(c) \o <<RP, COLSP, TRACE_THREAD>>
       \o Numeral(t) \o <<SP, SP>> \o tail \o <<NL>>

ASSUME_BV == <<LP, WORD, SP, EQ, SP, "5", BV, "3", "2", RP>>
ASSUME_BV_TIGHT == <<LP, WORD, EQ, "1", "0", BV, "8", RP>>
ASSUME_WORD == <<LP, WORD, SP, EQ, SP, WORD, RP>>
DESC_WORD == <<LP, WORD, RP>>

\* the lines of the back end's output smackdOutput is run on: trace lines
\* with and without a parenthesis, error lines, the two 'no bugs' phrases
\* and lines none of the three expressions matches
ReportLines ==
  { TraceLine(MAIN_C, 3, 4, 1, <<>>),
    TraceLine(MAIN_C, 5, 1, 2, ASSUME_BV),
    TraceLine(A_BPL, 12, 2, 1, ASSUME_BV_TIGHT),
    TraceLine(MAIN_C, 7, 2, 3, ASSUME_WORD),
    TraceLine(A_BPL, 2, 2, 1, DESC_WORD),
    DiagLine(<<>>, MAIN_C, 9, 2, <<ERROR_, WORD>>),
    DiagLine(<<>>, A_BPL, 1, 1, <<ERROR_, CODEW>>),
    <<SP>> \o TraceLine(MAIN_C, 3, 4, 1, <<>>),
    DiagLine(<<>>, MAIN_C, 9, 2, <<WORD>>),
    <<WORD, NL>>,
    <<PROGRAM_HAS, NOBUGS, NL>>,
    <<NOBUGS, NL>>,
    <<TIMEDOUT, NL>> }

InitReport ==
  /\ verifier_output = <<>>
  /\ nemit = 0
  /\ result = "none"
  /\ bpl = <<>>
  /\ step = None
  /\ trace = None
  /\ report = None
  /\ tx = None
  /\ pc = "run"

\* try_command collects one more line of corral's output
EmitReportLine(line) ==
  /\ pc = "run"
  /\ nemit < MaxReportLines
  /\ verifier_output' = verifier_output \o line
  /\ nemit' = nemit + 1
  /\ UNCHANGED <<result, bpl, step, trace, report, tx, pc>>

\* verify_bpl with --smackd: result = verification_result(verifier_output),
\* then print smackdOutput(verifier_output)
Smackd ==
  /\ pc = "run"
  /\ result' = verification_result(verifier_output)
  /\ report' = smackdOutput(verifier_output)
  /\ pc' = "reported"
  /\ UNCHANGED <<verifier_output, nemit, bpl, step, trace, tx>>

NextReport ==
  \/ \E line \in ReportLines : EmitReportLine(line)
  \/ Smackd

SpecReport == InitReport /\ [][NextReport]_vars

\* ---------------------------------------------------------- transform_out
OSError == [tag |-> "OSError", s |-> <<>>]

\* how the run of the filter ends: it exits with 0; it exits with another
\* status; it closes its input before reading all of it; or the command
\* cannot be started
FilterEnds == {"ok", "nonzero", "brokenpipe", "notfound"}

\* what the filter may have written to its output when it ends, given old
FilterOutputs(old) == {<<>>, old, <<NOBUGS, NL>>, <<WORD, NL>>}

\* transform_out(args, old): configured is args.transform_out; ends, stdout
\* and raises are the run of the filter. Popen raises OSError for a command
\* it cannot start. communicate returns what the filter wrote whatever its
\* exit status, which is not read; on a broken pipe it either does the same
\* or raises OSError, by the version of the library.
transform_out(configured, old, ends, stdout, raises) ==
  IF ~configured THEN Str(old)
  ELSE IF ends = "notfound" THEN OSError
  ELSE IF ends = "brokenpipe" /\ raises THEN OSError
  ELSE Str(stdout)

\* the lines of the back end's output given to the filter
FilterLines == {<<NOBUGS, NL>>, <<CANFAIL, NL>>, <<TIMEDOUT, NL>>, <<WORD, NL>>}

InitTransform ==
  /\ verifier_output = <<>>
  /\ nemit = 0
  /\ result = "none"
  /\ bpl = <<>>
  /\ step = None
  /\ trace = None
  /\ report = None
  /\ tx = None
  /\ pc = "run"

\* try_command collects one more line of the back end's output
EmitFilterLine(line) ==
  /\ pc = "run"
  /\ nemit < MaxFilterLines
  /\ verifier_output' = verifier_output \o line
  /\ nemit' = nemit + 1
  /\ UNCHANGED <<result, bpl, step, trace, report, tx, pc>>

\* verify_bpl: verifier_output = transform_out(args, verifier_output)
TransformOut(configured, ends, stdout, raises) ==
  /\ pc = "run"
  /\ LET out == transform_out(configured, verifier_output, ends, stdout, raises)
     IN /\ tx' = [configured |-> configured,
                  ends |-> IF configured THEN ends ELSE "none",
                  old |-> verifier_output, out |-> out]
        /\ verifier_output' = IF out.tag = "str" THEN out.s ELSE verifier_output
        /\ pc' = IF out.tag = "str" THEN "transformed" ELSE "raised"
  /\ UNCHANGED <<nemit, result, bpl, step, trace, report>>

\* verify_bpl: result = verification_result(verifier_output)
ClassifyOut ==
  /\ pc = "transformed"
  /\ result' = verification_result(verifier_output)
  /\ pc' = "classified"
  /\ UNCHANGED <<verifier_output, nemit, bpl, step, trace, report, tx>>

NextTransform ==
  \/ \E line \in FilterLines : EmitFilterLine(line)
  \/ \E configured \in BOOLEAN, ends \in FilterEnds, raises \in BOOLEAN :
       \E stdout \in FilterOutputs(verifier_output) :
         TransformOut(configured, ends, stdout, raises)
  \/ ClassifyOut

SpecTransform == InitTransform /\ [][NextTransform]_vars

\* ------------------------------------------------ classifier properties
Outcomes ==
  {"verified", "timeout", "unknown", "invalid-deref", "invalid-free",
   "invalid-memtrack", "overflow", "error"}

Classified == pc = "classified"

\* the numerals of s that stand immediately before position j, as pairs
\* <<first, last>>
NumeralsBefore(s, j) ==
  {<<i, j - 1>> : i \in {i \in 1..(j - 1) : \A k \in i..(j - 1) : s[k] \in Digit}}

\* an 'N time out' pattern with N >= 1, or one of the three timeout markers
HasTimeoutMarker(s) ==
  \/ \E j \in 1..Len(s) :
        /\ s[j] = TO
        /\ \E n \in NumeralsBefore(s, j) : int(SubSeq(s, n[1], n[2])) >= 1
  \/ \E i \in 1..Len(s) : s[i] \in {Z3OUT, TIMEDOUT, ERRORS_TIMEOUT}

\* a 'K verified, 0 errors' pattern with K >= MinK
HasVerifiedCount(s, MinK) ==
  \E j \in 1..Len(s) :
     /\ s[j] = VER /\ At(s, j + 1) = "0" /\ At(s, j + 2) = ERR
     /\ \E n \in NumeralsBefore(s, j) : int(SubSeq(s, n[1], n[2])) >= MinK

HasSuccessMarker(s, MinK) ==
  \/ HasVerifiedCount(s, MinK)
  \/ \E i \in 1..Len(s) : s[i] \in {NOBUGS, NO_ERRORS_NO_TIMEOUT}

\* C1: classify is total over the closed taxonomy, and answers unknown
\* exactly when the text matches none of the timeout, success and failure
\* rules.
C1_Total ==
  Classified =>
    /\ result \in Outcomes
    /\ result = "unknown" <=>
         (~TimeoutRe(verifier_output) /\ ~VerifiedRe(verifier_output)
            /\ ~ErrorRe(verifier_output))

\* a text with zero counts only is classified unknown
C1_Witness ==
  /\ Classified
  /\ result = "unknown"
  /\ verifier_output = <<D0, VER, D0, ERR, NL, A_DEREF>>

\* C2: a text that contains a timeout marker is classified timeout,
\* whatever success markers, failure markers or counts it also contains.
C2_TimeoutPrecedence ==
  (Classified /\ HasTimeoutMarker(verifier_output)) => result = "timeout"

\* a timeout next to a success count and a failure marker
C2_Witness ==
  /\ Classified
  /\ result = "timeout"
  /\ HasTimeoutMarker(verifier_output)
  /\ VerifiedRe(verifier_output)
  /\ ErrorRe(verifier_output)

\* C3 as stated: without a timeout marker, 'K verified, 0 errors' for any
\* K >= 0, 'no bugs' or NO_ERRORS_NO_TIMEOUT gives verified.
C3_VerifiedAnyK ==
  (Classified /\ ~HasTimeoutMarker(verifier_output)
     /\ HasSuccessMarker(verifier_output, 0)) => result = "verified"

\* C3 amended: without a timeout marker, 'K verified, 0 errors' for K >= 1,
\* 'no bugs' or NO_ERRORS_NO_TIMEOUT gives verified, also when a failure
\* marker is present.
C3_VerifiedPositiveK ==
  (Classified /\ ~HasTimeoutMarker(verifier_output)
     /\ HasSuccessMarker(verifier_output, 1)) => result = "verified"

\* a positive verified count next to a failure marker
C3_Witness ==
  /\ Classified
  /\ result = "verified"
  /\ HasVerifiedCount(verifier_output, 1)
  /\ ErrorRe(verifier_output)

\* C4 as stated: the valid_deref marker alone decides invalid-deref.
C4_DerefAlways ==
  (Classified /\ Search(A_DEREF, verifier_output)) => result = "invalid-deref"

\* C4 amended: the valid_deref marker decides invalid-deref when no timeout
\* rule and no success rule matches and a failure rule matches, whatever
\* other category markers the text holds and wherever they stand.
C4_DerefInFailure ==
  (Classified /\ Search(A_DEREF, verifier_output)
     /\ ~TimeoutRe(verifier_output) /\ ~VerifiedRe(verifier_output)
     /\ ErrorRe(verifier_output)) => result = "invalid-deref"

\* the valid_free marker stands before the valid_deref marker
C4_Witness ==
  /\ Classified
  /\ result = "invalid-deref"
  /\ \E i, j \in 1..Len(verifier_output) :
        i < j /\ verifier_output[i] = A_FREE /\ verifier_output[j] = A_DEREF

InFailure(s) == ~TimeoutRe(s) /\ ~VerifiedRe(s) /\ ErrorRe(s)

CategoryMarker == <<A_DEREF, A_FREE, A_MEMTRACK, A_OVERFLOW>>
CategoryOutcome == <<"invalid-deref", "invalid-free", "invalid-memtrack", "overflow">>

\* C5: in failure sub-classification the first category marker present, in
\* the order valid_deref, valid_free, valid_memtrack, overflow, decides the
\* outcome; positions in the text do not matter.
C5_CategoryOrder ==
  (Classified /\ InFailure(verifier_output)) =>
    \A k \in 1..4 :
      (/\ \E i \in 1..Len(verifier_output) : verifier_output[i] = CategoryMarker[k]
       /\ \A m \in 1..(k - 1) : \A i \in 1..Len(verifier_output) :
             verifier_output[i] # CategoryMarker[m])
      => result = CategoryOutcome[k]

\* the overflow marker stands before the valid_free marker
C5_Witness ==
  /\ Classified
  /\ result = "invalid-free"
  /\ \E i, j \in 1..Len(verifier_output) :
        i < j /\ verifier_output[i] = A_OVERFLOW /\ verifier_output[j] = A_FREE

\* the '(CALL ...)' occurrences of s, each from a '(CALL ' to the nearest
\* ')' after it on the same line, as pairs <<first, last>>
CallOccurrences(s) ==
  {<<i, j>> \in (1..Len(s)) \X (1..Len(s)) :
     /\ i < j /\ s[i] = CALL /\ s[j] = RP
     /\ \A k \in (i + 1)..(j - 1) : s[k] \notin {RP, NL}}

\* the last '(CALL ...)' occurrence names a callee with 'free_'
LastOccurrenceFrees(s) ==
  \E m \in CallOccurrences(s) :
     /\ \A n \in CallOccurrences(s) : n[1] <= m[1]
     /\ \E k \in m[1]..m[2] : s[k] = FREE_

\* C6: in failure sub-classification without a category marker the outcome
\* is invalid-free exactly when the last '(CALL ...)' occurrence calls a
\* deallocation routine, and error otherwise.
C6_LastCallDecides ==
  (Classified /\ InFailure(verifier_output)
     /\ \A k \in 1..4 : ~Search(CategoryMarker[k], verifier_output)) =>
    result = (IF LastOccurrenceFrees(verifier_output) THEN "invalid-free" ELSE "error")

\* ---------------------------------------------- step resolver properties
Stepped == pc = "stepped"

Min(S) == CHOOSE k \in S : \A h \in S : k <= h

\* the message of a rewritten line: empty for a basic-block label
Shown(msg) == IF \E i \in 1..Len(msg) : msg[i] = BB /\ At(msg, i + 1) \in Digit
              THEN <<>> ELSE msg

\* the located diagnostics of a.bpl with their parts, those of a .bpl file
\* with their text, and those of the other files with their text
BplCases ==
  {[ind |-> sh.ind, n |-> n, msg |-> sh.msg, line |-> DiagLine(sh.ind, A_BPL, n, 3, sh.msg)] :
     sh \in BplShapes, n \in LineNos}
GeneratedCases ==
  {[line |-> DiagLine(c.ind, f, c.n, col, c.msg), text |-> DiagText(c.ind, f, c.n, col, c.msg)] :
     c \in BplCases, f \in {A_BPL, B_BPL}, col \in {1, 3}}
OtherCases ==
  {[line |-> DiagLine(ind, f, 3, 4, msg), text |-> DiagText(ind, f, 3, 4, msg)] :
     ind \in Indents, f \in OtherFiles, msg \in Messages}

\* C7: the reader examines the 10 artifact lines L .. L+9, L being the
\* reported line, and returns the first well-formed annotation among them,
\* nothing when there is none.
C7_WindowFromL ==
  Stepped =>
    \A c \in BplCases :
      verifier_output = c.line =>
        LET W == {k \in GoodLines(bpl) : c.n <= k /\ k <= c.n + 9} IN
        IF W = {} THEN step = None
        ELSE step = Str(DiagText(c.ind, MAIN_C, Min(W), 2, Shown(c.msg)))

\* the well-formed annotations of the lines the scan of error_step covers
Scanned(text, n) == {k \in GoodLines(text) : n + 1 <= k /\ k <= n + WINDOW}

\* C8: a line that refers to a .bpl file is rewritten with the location of
\* the annotation found for it and the message emptied for a basic-block
\* label; without an annotation the result is none; the line is never
\* returned with its .bpl location.
C8_Rewrite ==
  Stepped =>
    /\ \A c \in BplCases :
         verifier_output = c.line =>
           LET found == Scanned(bpl, c.n) IN
           IF found = {} THEN step = None
           ELSE step = Str(DiagText(c.ind, MAIN_C, Min(found), 2, Shown(c.msg)))
    /\ \A g \in GeneratedCases : verifier_output = g.line => step # Str(g.text)

\* a basic-block line resolved past a malformed annotation
C8_Witness ==
  /\ Stepped
  /\ verifier_output = DiagLine(<<SP>>, A_BPL, 2, 3, <<BB, "0", WORD>>)
  /\ 3 \in BadLines(bpl)
  /\ step = Str(DiagText(<<SP>>, MAIN_C, 5, 2, <<>>))

\* C9: a located diagnostic whose file does not end in .bpl is returned
\* unchanged, and a line without the located-diagnostic shape yields none.
C9_Passthrough ==
  Stepped =>
    /\ \A o \in OtherCases : verifier_output = o.line => step = Str(o.text)
    /\ verifier_output \in Unshaped => step = None

\* an indented line of a file named a.bplx with a basic-block message
C9_Witness ==
  /\ Stepped
  /\ verifier_output = DiagLine(<<TAB>>, <<F_A, EXT_BPL, WORD>>, 3, 4, <<BB, "0", WORD>>)
  /\ step = Str(<<TAB, F_A, EXT_BPL, WORD, LP, "3", COMMA, "4", RP, COLSP, BB, "0", WORD>>)
  /\ GoodLines(bpl) # {}

\* -------------------------------------------- trace assembler properties
\* the decompositions of st as '<location>: error <code>: <description>',
\* each as the header '<location>: <description>' and 'Execution trace:'
Headers(st) ==
  {SubSeq(st, 1, i - 1) \o <<COLSP>> \o SubSeq(st, j + 1, Len(st))
     \o <<NL, EXEC_TRACE, NL>> :
   <<i, j>> \in {<<i, j>> \in (1..Len(st)) \X (1..Len(st)) :
                   /\ j > i + 2
                   /\ st[i] = COLSP /\ st[i + 1] \in {ERROR_, CAP_ERROR_}
                   /\ st[j] = COLSP
                   /\ \A k \in (i + 2)..(j - 1) : st[k] \in CodeClass}}

\* the piece of the trace a line stands for
Rendered(line, text) ==
  LET r == error_step(line, text) IN
  IF r.tag # "str" THEN <<>>
  ELSE IF Headers(r.s) # {} THEN CHOOSE h \in Headers(r.s) : TRUE
  ELSE IF r.s[1] = SP THEN r.s \o <<NL>>
  ELSE <<SP, SP, SP, SP>> \o r.s \o <<NL>>

\* C10: the trace is the concatenation, in input order, of one piece per
\* line that resolve_step resolves: a header and 'Execution trace:' for an
\* error line, otherwise the line behind 4 spaces unless it begins with a
\* space; an error line of a.bpl resolved to main.c renders as the header
\* 'main.c(line,col): description'.
C10_Trace ==
  pc = "traced" =>
    /\ LET ls == splitlines(verifier_output) IN
       trace = Str(Flatten([k \in 1..Len(ls) |-> Rendered(ls[k], bpl)]))
    /\ (verifier_output = DiagLine(<<>>, A_BPL, 2, 3, ERROR_MSG) /\ 5 \in GoodLines(bpl))
         => trace = Str(<<F_MAIN, EXT_C, LP, "5", COMMA, "2", RP, COLSP, WORD,
                          NL, EXEC_TRACE, NL>>)

\* a resolved error header followed by a step that begins with a space
C10_Witness ==
  /\ pc = "traced"
  /\ verifier_output = DiagLine(<<>>, A_BPL, 2, 3, ERROR_MSG)
                         \o DiagLine(<<SP>>, MAIN_C, 3, 4, <<WORD>>)
  /\ trace = Str(<<F_MAIN, EXT_C, LP, "5", COMMA, "2", RP, COLSP, WORD,
                   NL, EXEC_TRACE, NL,
                   SP, F_MAIN, EXT_C, LP, "3", COMMA, "4", RP, COLSP, WORD, NL>>)


\* ------------------------------------------------ smackdOutput properties
Reported == pc = "reported"

\* what each line of ReportLines is, by the way it was written: a trace
\* line with its step, an error line with its location, or neither
TraceCase(file, n, c, t, tail, d, a) ==
  [text |-> TraceLine(file, n, c, t, tail), kind |-> "trace",
   file |-> file, line |-> n, column |-> c, threadid |-> t,
   description |-> d, assumption |-> a]
ErrorCase(file, n, c, message) ==
  [text |-> DiagLine(<<>>, file, n, c, message), kind |-> "error",
   file |-> file, line |-> n, column |-> c, threadid |-> 0,
   description |-> message, assumption |-> <<>>]
OtherCase(text) ==
  [text |-> text, kind |-> "other", file |-> <<>>, line |-> 0, column |-> 0,
   threadid |-> 0, description |-> <<>>, assumption |-> <<>>]
ReportCases ==
  { TraceCase(MAIN_C, 3, 4, 1, <<>>, <<>>, <<>>),
    TraceCase(MAIN_C, 5, 1, 2, ASSUME_BV, <<WORD, SP, EQ, SP, "5", BV, "3", "2">>,
              <<WORD, SP, EQ, SP, "5">>),
    TraceCase(A_BPL, 12, 2, 1, ASSUME_BV_TIGHT, <<WORD, EQ, "1", "0", BV, "8">>,
              <<WORD, EQ, "1", "0">>),
    TraceCase(MAIN_C, 7, 2, 3, ASSUME_WORD, <<WORD, SP, EQ, SP, WORD>>,
              <<WORD, SP, EQ, SP, WORD>>),
    TraceCase(A_BPL, 2, 2, 1, DESC_WORD, <<WORD>>, <<>>),
    ErrorCase(MAIN_C, 9, 2, <<ERROR_, WORD>>),
    ErrorCase(A_BPL, 1, 1, <<ERROR_, CODEW>>),
    OtherCase(<<SP>> \o TraceLine(MAIN_C, 3, 4, 1, <<>>)),
    OtherCase(DiagLine(<<>>, MAIN_C, 9, 2, <<WORD>>)),
    OtherCase(<<WORD, NL>>),
    OtherCase(<<PROGRAM_HAS, NOBUGS, NL>>),
    OtherCase(<<NOBUGS, NL>>),
    OtherCase(<<TIMEDOUT, NL>>) }
CaseOf(line) == CHOOSE c \in ReportCases : c.text = line

\* the cases of the lines of the output, in order
OutputCases == [i \in 1..nemit |-> CaseOf(splitlines(verifier_output)[i])]
CasesOfKind(kind) == SelectSeq(OutputCases, LAMBDA c : c.kind = kind)


HasProgramHasNoBugs ==
  \E i \in 1..nemit : OutputCases[i].text = <<PROGRAM_HAS, NOBUGS, NL>>
HasNoBugs ==
  \E i \in 1..nemit : OutputCases[i].text \in {<<PROGRAM_HAS, NOBUGS, NL>>, <<NOBUGS, NL>>}
PassFields == {"verifier", "passed"}
FailFields == {"verifier", "passed", "failsAt", "threadCount", "traces"}
Failed == Reported /\ ~report.passed

\* C11: in a Fail report failsAt depends on the error lines only: it holds
\* the file, line, column and description of the last error line of the
\* output, and '', 0, 0, '' where the output has no error line, whatever
\* trace lines stand before or after that error line.
C11_FailsAtLastError ==
  Failed =>
    LET errs == CasesOfKind("error")
    IN report.failsAt =
         IF errs = <<>>
         THEN [file |-> <<>>, line |-> 0, column |-> 0, description |-> <<>>]
         ELSE LET e == errs[Len(errs)]
              IN [file |-> e.file, line |-> e.line, column |-> e.column,
                  description |-> e.description]

\* C12 as stated: the report is the Pass record, with the two fields
\* verifier and passed only, for every output that holds the 'no bugs'
\* marker, and a Fail record for every output that does not.
C12_PassOnNoBugs ==
  Reported =>
    IF HasNoBugs THEN report = [verifier |-> "corral", passed |-> TRUE]
    ELSE DOMAIN report = FailFields /\ ~report.passed

\* C12: the report is the Pass record, with the two fields verifier and
\* passed only, for every output that holds 'Program has no bugs', and a
\* Fail record with failsAt, threadCount and traces for every other output;
\* the classifier answers Verified for an output with a Pass report unless
\* a timeout marker is in it.
C12_PassOnProgramHasNoBugs ==
  Reported =>
    /\ IF HasProgramHasNoBugs
       THEN report = [verifier |-> "corral", passed |-> TRUE] /\ DOMAIN report = PassFields
       ELSE DOMAIN report = FailFields /\ ~report.passed /\ report.verifier = "corral"
    /\ report.passed => result \in {"verified", "timeout"}

C12_Witness ==
  /\ Reported
  /\ verifier_output = TraceLine(MAIN_C, 3, 4, 1, <<>>)
                         \o DiagLine(<<>>, MAIN_C, 9, 2, <<ERROR_, WORD>>)
                         \o <<PROGRAM_HAS, NOBUGS, NL>>
  /\ report = [verifier |-> "corral", passed |-> TRUE]
  /\ result = "verified"

\* C13: the step of a trace line whose parenthesis reads 'variable = value'
\* has that text as its assumption, a 'bvNN' suffix of a numeric value
\* struck ('x = 5bv32' gives 'x = 5'); the step of any other trace line has
\* the empty assumption.
C13_Assumption ==
  Failed =>
    LET steps == CasesOfKind("trace")
    IN /\ Len(report.traces) = Len(steps)
       /\ \A i \in 1..Len(steps) : report.traces[i].assumption = steps[i].assumption

C13_Witness ==
  /\ Failed
  /\ verifier_output = TraceLine(MAIN_C, 5, 1, 2, ASSUME_BV)
                         \o TraceLine(A_BPL, 2, 2, 1, DESC_WORD)
                         \o TraceLine(MAIN_C, 7, 2, 3, ASSUME_WORD)
  /\ report.traces[1].assumption = <<WORD, SP, EQ, SP, "5">>
  /\ report.traces[2].assumption = <<>>
  /\ report.traces[3].assumption = <<WORD, SP, EQ, SP, WORD>>

\* C14: in a Fail report traces holds one step for each trace line of the
\* output, in the order of the lines, each with the thread id, file, line
\* and column of its own line; error lines and other lines add no step and
\* change none; threadCount is 1.
C14_Traces ==
  Failed =>
    LET steps == CasesOfKind("trace")
    IN /\ report.threadCount = 1
       /\ Len(report.traces) = Len(steps)
       /\ \A i \in 1..Len(steps) :
            /\ report.traces[i].threadid = steps[i].threadid
            /\ report.traces[i].file = steps[i].file
            /\ report.traces[i].line = steps[i].line
            /\ report.traces[i].column = steps[i].column
            /\ report.traces[i].description = steps[i].description

C14_Witness ==
  /\ Failed
  /\ verifier_output = TraceLine(MAIN_C, 5, 1, 2, ASSUME_BV)
                         \o DiagLine(<<>>, A_BPL, 1, 1, <<ERROR_, CODEW>>)
                         \o TraceLine(A_BPL, 12, 2, 1, ASSUME_BV_TIGHT)
  /\ report.threadCount = 1
  /\ Len(report.traces) = 2
  /\ report.traces[1].threadid = 2 /\ report.traces[1].file = MAIN_C
  /\ report.traces[1].line = 5 /\ report.traces[1].column = 1
  /\ report.traces[2].threadid = 1 /\ report.traces[2].file = A_BPL
  /\ report.traces[2].line = 12 /\ report.traces[2].column = 2


\* ------------------------------------------------ transform_out properties
\* C15: with an output-transform command configured and the filter failing,
\* by a non-zero exit status or a broken pipe, transform_out gives an error
\* and no text, and nothing is classified; with no command configured it
\* gives its input unchanged.
C15_FilterFailureSurfaces ==
  tx # None =>
    /\ (tx.configured /\ tx.ends \in {"nonzero", "brokenpipe"}) =>
         /\ tx.out.tag # "str"
         /\ result = "none"
    /\ ~tx.configured => tx.out = Str(tx.old)


\* ------------------------------------------------ never raises
\* C16: no output of the back end makes error_trace raise: a located line
\* that names a .bpl file which does not exist or cannot be read is dropped
\* like a line that matches nothing, and error_trace returns its text.
C16_NeverRaises == pc # "raised" /\ trace.tag # "IOError"

====
